---- MODULE Spec2Model ----
(***************************************************************************)
(* Steamcodle: the round state machine of the client component             *)
(* SteamGameViewer (src/components/steam-game-viewer.tsx).                 *)
(*                                                                         *)
(* One action per event handler, effect or fetch continuation.  A handler  *)
(* runs against the values of the render it was created in; React then     *)
(* commits the queued state updates and runs the effects whose             *)
(* dependencies changed, before the next event is handled.  An action is   *)
(* therefore the handler followed by that commit and its effects.          *)
(*                                                                         *)
(* Numbers typed by the player may have a fractional part ("50.5"), so     *)
(* guess values are kept in units of 1/Unit of a percentage point.         *)
(*                                                                         *)
(* The server module lib/steam (src/app/page.tsx, lines 289-681) and the   *)
(* route handler GET (src/unnamed/part_002) are modelled next to it:       *)
(* SpecScore applies normalizeReviewScore, SpecCatalog runs the two        *)
(* catalog functions against the clock, SpecSelect runs                    *)
(* fetchRandomSteamGame.  The component's specifications leave the server  *)
(* state alone and the server's leave the component's alone.               *)
(***************************************************************************)
EXTENDS Integers, Sequences, FiniteSets, TLC

\* ------------------------------------------------------------------ bounds
MaxDay == 1
MaxRoundsPerDay == 4
MaxTotalGuesses == 5
MaxNow == 13
MaxServed == 2

\* ------------------------------------------------------- program constants
MAX_GUESSES == 5
WIN_THRESHOLD == 2
DAILY_LOSS_LIMIT == 3

\* lib/steam; the cache lifetimes are in hours, the unit of the clock `now`.
FEATURED_CACHE_TTL == 1
APP_LIST_CACHE_TTL == 12
MIN_TOTAL_REVIEWS == 100
MAX_TOTAL_ATTEMPTS == 50
RECENT_HISTORY_LIMIT == 25

Unit == 10
Absent == -1

DAILY_LIMIT_MESSAGE == "Daily loss limit reached. Come back tomorrow."
NoMessage == ""
FetchErrorMessages == {"Unable to fetch game"}

\* The titles the round-fetch endpoint may answer with: reviewScore is
\* `number | null` in the SteamGame type.  Spec serves the ones of
\* CoreTitles, SpecInput all of them.
NullGame == [appId |-> 0, reviewScore |-> Absent]
CoreTitles == {[appId |-> 10, reviewScore |-> 50]}
Titles == CoreTitles \cup {[appId |-> 20, reviewScore |-> Absent]}

\* Texts the player may type into the guess input: the ones every
\* specification draws from, and the further ones of SpecInput.
CoreTexts == {"", " 52 ", "53"}
InputTexts == CoreTexts \cup {"abc", "   ", "Infinity", "101", "-1", "50.5"}

VARIABLES
    today,            \* current UTC date, as a day number (getToday)
    isDevMode,        \* NEXT_PUBLIC_DEV_MODE === "true"
    status,           \* state.status
    message,          \* state.message (error state only)
    game,             \* state.game
    guesses,          \* guesses
    currentGuess,     \* currentGuess (text of the input)
    didWin,           \* didWin
    gameResolved,     \* gameResolved
    gameResolvedRef,  \* gameResolvedRef.current
    stats,            \* stats (StatsSnapshot)
    statsLoaded,      \* statsLoaded
    stored,           \* localStorage[STORAGE_KEY]
    inflight,         \* number of round-fetch requests awaiting a response
    roundsToday,      \* history: titles served on the current UTC date
    resolutions,      \* history: win/loss bookkeepings applied for state.game
    lastEvent         \* history: the handler that ran last

\* The state of the server module lib/steam (src/app/page.tsx, lines
\* 289-681) and of the calls of its functions that are in progress.
VARIABLES
    scoreArgs,        \* arguments of a call of normalizeReviewScore
    scoreResult,      \* its return value, once it returned
    now,              \* Date.now(), in hours
    fallbackAppIds,   \* the bundled list data/fallback-app-ids.json
    cachedFeaturedIds,
    cachedFeaturedExpiry,
    cachedAllAppIds,
    cachedAllAppIdsExpiry,
    warnedFeaturedFallback,
    featuredCall,     \* the latest call of fetchFeaturedAppIds
    allCall,          \* the latest call of fetchAllAppIds
    recentHistory,
    sel,              \* the latest call of fetchRandomSteamGame
    served            \* history: the ids fetchRandomSteamGame returned, in
                      \* order

scoreVars == <<scoreArgs, scoreResult>>

cacheVars == <<cachedFeaturedIds, cachedFeaturedExpiry, cachedAllAppIds,
               cachedAllAppIdsExpiry, warnedFeaturedFallback>>

catalogVars == <<now, fallbackAppIds, cacheVars, featuredCall, allCall>>

selectVars == <<recentHistory, sel, served>>

svars == <<scoreVars, catalogVars, selectVars>>

cvars == <<today, isDevMode, status, message, game, guesses, currentGuess,
           didWin, gameResolved, gameResolvedRef, stats, statsLoaded, stored,
           inflight, roundsToday, resolutions, lastEvent>>

vars == <<cvars, svars>>

\* A call that has not returned.
NoResult == [done |-> FALSE, value |-> Absent]

\* No call of normalizeReviewScore.
ScoreIdle ==
    /\ scoreArgs = [positive |-> Absent, total |-> Absent,
                    fallbackScore |-> Absent]
    /\ scoreResult = NoResult

\* `null` where a list of ids is expected.
Null == <<Absent>>

\* The bundled list the model is built with, and the ones it may be built
\* with.
BundledIds == <<1, 2>>
BundledLists == {<<>>, BundledIds}

\* A call of a catalog function: not made, awaiting the upstream response,
\* or returned with `ids`; `at` is the `now` of the call, `requested` tells
\* that it sent an upstream request, `fellBack` that it returned
\* loadFallbackCatalog().
NoCall == [phase |-> "none", at |-> 0, ids |-> <<>>,
           requested |-> FALSE, fellBack |-> FALSE]

\* The SteamGame fields the selector reads, and no title.
NoGame == [appId |-> 0, type |-> "", totalReviews |-> Absent,
           reviewScore |-> Absent]

NoError == ""

\* The frame of a call of fetchRandomSteamGame: where it is (not called,
\* awaiting the catalogs, in the loop, returned `game`, failed with
\* `error`), its argument excludeIds and its locals.  `viaRoute` and
\* `requestExclude` tell whether the route handler GET made the call and
\* the exclude parameter of its request; `outcome` is what the latest
\* candidate resolution ended in and `lastFailure` the message of the
\* latest one that failed.
NoSelect ==
    [phase |-> "none", viaRoute |-> FALSE, requestExclude |-> {},
     excludeIds |-> {}, excludeSet |-> {}, attempt |-> 0,
     lastError |-> NoError, filtered |-> FALSE, game |-> NoGame,
     error |-> NoError, outcome |-> "", lastFailure |-> NoError]

\* The module-level declarations, built with the bundled list `bundled`.
ModuleInit(bundled) ==
    /\ recentHistory = <<>>
    /\ served = <<>>
    /\ sel = NoSelect
    /\ now = 0
    /\ fallbackAppIds = bundled
    /\ cachedFeaturedIds = Null
    /\ cachedFeaturedExpiry = 0
    /\ cachedAllAppIds = Null
    /\ cachedAllAppIdsExpiry = 0
    /\ warnedFeaturedFallback = FALSE
    /\ featuredCall = NoCall
    /\ allCall = NoCall

\* The server module as loaded, with no call in progress.
ServerInit ==
    /\ ScoreIdle
    /\ ModuleInit(BundledIds)

\* ---------------------------------------------------------------- helpers
Abs(x) == IF x < 0 THEN -x ELSE x

Max(a, b) == IF a >= b THEN a ELSE b

Min(a, b) == IF a <= b THEN a ELSE b

\* String.prototype.trim on the texts of InputTexts.
trim(text) ==
    CASE text = "   " -> ""
      [] text = " 52 " -> "52"
      [] OTHER -> text

\* Number(text) on trimmed texts: NaN, an infinity, or a finite value
\* (in 1/Unit of a point).
Number(text) ==
    CASE text = "" -> [kind |-> "finite", value |-> 0]
      [] text = "abc" -> [kind |-> "NaN", value |-> 0]
      [] text = "Infinity" -> [kind |-> "Infinity", value |-> 0]
      [] text = "101" -> [kind |-> "finite", value |-> 101 * Unit]
      [] text = "-1" -> [kind |-> "finite", value |-> (-1) * Unit]
      [] text = "52" -> [kind |-> "finite", value |-> 52 * Unit]
      [] text = "53" -> [kind |-> "finite", value |-> 53 * Unit]
      [] text = "50.5" -> [kind |-> "finite", value |-> 50 * Unit + 5]
      [] OTHER -> [kind |-> "NaN", value |-> 0]

\* ------------------------------------------------------------------ stats
getDefaultStats(t) ==
    [totalGuesses |-> 0, correctGames |-> 0, incorrectGames |-> 0,
     currentStreak |-> 0, bestStreak |-> 0, lastPlayedDate |-> t,
     lossesToday |-> 0]

\* Mutant: a snapshot of an earlier date loses its streak too.
normalizeStats_ResetsStreak(s, t) ==
    IF s.lastPlayedDate = t
    THEN s
    ELSE [s EXCEPT !.lastPlayedDate = t, !.lossesToday = 0,
                   !.currentStreak = 0]

normalizeStats(s, t) ==
    IF s.lastPlayedDate = t
    THEN s
    ELSE [s EXCEPT !.lastPlayedDate = t, !.lossesToday = 0]

\* Mutant: the limit is applied in dev mode too.
dailyLossLimitReached_InDevMode(dev, s) ==
    s.lossesToday >= DAILY_LOSS_LIMIT

dailyLossLimitReached(dev, s) ==
    ~dev /\ s.lossesToday >= DAILY_LOSS_LIMIT

\* localStorage values: nothing stored, text that JSON.parse rejects, or a
\* serialized StatsSnapshot.
StoredAbsent == [kind |-> "absent", value |-> getDefaultStats(0)]
StoredCorrupt == [kind |-> "corrupt", value |-> getDefaultStats(0)]
StoredJson(s) == [kind |-> "json", value |-> s]

\* ------------------------------------------------------------- fetchGame
\* The synchronous part of fetchGame, run with the values captured by the
\* render that created it: the state it sets and whether it issues a
\* request to the round-fetch endpoint.
\* Mutant: the request is issued without looking at the daily limit.
fetchGame_NoLimitCheck(limitReached, loaded, prevStatus, prevMessage) ==
    IF ~loaded
    THEN [status |-> prevStatus, message |-> prevMessage, issued |-> 0]
    ELSE [status |-> "loading", message |-> NoMessage, issued |-> 1]

fetchGame(limitReached, loaded, prevStatus, prevMessage) ==
    IF ~loaded
    THEN [status |-> prevStatus, message |-> prevMessage, issued |-> 0]
    ELSE IF limitReached
    THEN [status |-> "error", message |-> DAILY_LIMIT_MESSAGE, issued |-> 0]
    ELSE [status |-> "loading", message |-> NoMessage, issued |-> 1]

\* ------------------------------------------------------------ the inputs
\* Mutant: the upper end of the range is not checked.
guessIsNumber_NoUpperBound(text) ==
    /\ Len(trim(text)) > 0
    /\ Number(trim(text)).kind = "finite"
    /\ Number(trim(text)).value >= 0

guessIsNumber(text) ==
    /\ Len(trim(text)) > 0
    /\ Number(trim(text)).kind = "finite"
    /\ Number(trim(text)).value >= 0
    /\ Number(trim(text)).value <= 100 * Unit

\* Mutant: only the title and the text are looked at.
canSubmitGuess_OnlyNumber ==
    /\ game # NullGame
    /\ guessIsNumber(currentGuess)

canSubmitGuess ==
    /\ status = "idle"
    /\ game # NullGame
    /\ Len(guesses) < MAX_GUESSES
    /\ ~gameResolved
    /\ ~didWin
    /\ guessIsNumber(currentGuess)

guessCounterLabel ==
    <<Min(IF didWin THEN Len(guesses) ELSE Len(guesses) + 1, MAX_GUESSES),
      MAX_GUESSES>>

inputDisabled ==
    Len(guesses) >= MAX_GUESSES \/ status # "idle" \/ didWin

newGameDisabled ==
    status = "loading" \/ dailyLossLimitReached(isDevMode, stats)

\* ---------------------------------------------------------- finalizeGame
\* Mutant: a win does not raise the best streak.
finalizeStats_StaleBest(result, prev, t) ==
    LET normalized == normalizeStats(prev, t)
        updated == [normalized EXCEPT
                      !.lastPlayedDate = t,
                      !.lossesToday = IF result = "loss"
                                      THEN normalized.lossesToday + 1
                                      ELSE normalized.lossesToday]
    IN  IF result = "win"
        THEN [updated EXCEPT
                !.correctGames = updated.correctGames + 1,
                !.currentStreak = updated.currentStreak + 1]
        ELSE [updated EXCEPT
                !.incorrectGames = updated.incorrectGames + 1,
                !.currentStreak = 0]

\* Mutant: a loss leaves the current streak alone.
finalizeStats_KeepsStreak(result, prev, t) ==
    LET normalized == normalizeStats(prev, t)
        updated == [normalized EXCEPT
                      !.lastPlayedDate = t,
                      !.lossesToday = IF result = "loss"
                                      THEN normalized.lossesToday + 1
                                      ELSE normalized.lossesToday]
    IN  IF result = "win"
        THEN [updated EXCEPT
                !.correctGames = updated.correctGames + 1,
                !.currentStreak = updated.currentStreak + 1,
                !.bestStreak = Max(updated.bestStreak,
                                   updated.currentStreak + 1)]
        ELSE [updated EXCEPT
                !.incorrectGames = updated.incorrectGames + 1]

\* Mutant: a win leaves the streaks alone.
finalizeStats_NoStreak(result, prev, t) ==
    LET normalized == normalizeStats(prev, t)
        updated == [normalized EXCEPT
                      !.lastPlayedDate = t,
                      !.lossesToday = IF result = "loss"
                                      THEN normalized.lossesToday + 1
                                      ELSE normalized.lossesToday]
    IN  IF result = "win"
        THEN [updated EXCEPT !.correctGames = updated.correctGames + 1]
        ELSE [updated EXCEPT
                !.incorrectGames = updated.incorrectGames + 1,
                !.currentStreak = 0]

\* The setStats updater of finalizeGame.
finalizeStats(result, prev, t) ==
    LET normalized == normalizeStats(prev, t)
        updated == [normalized EXCEPT
                      !.lastPlayedDate = t,
                      !.lossesToday = IF result = "loss"
                                      THEN normalized.lossesToday + 1
                                      ELSE normalized.lossesToday]
    IN  IF result = "win"
        THEN [updated EXCEPT
                !.correctGames = updated.correctGames + 1,
                !.currentStreak = updated.currentStreak + 1,
                !.bestStreak = Max(updated.bestStreak,
                                   updated.currentStreak + 1)]
        ELSE [updated EXCEPT
                !.incorrectGames = updated.incorrectGames + 1,
                !.currentStreak = 0]

\* Mutant: the bookkeeping is applied without setting the latch.
finalizeGame_NoLatch(result, ref, resolved, prev, t) ==
    IF ref
    THEN [ref |-> ref, resolved |-> resolved, stats |-> prev]
    ELSE [ref |-> ref, resolved |-> resolved,
          stats |-> finalizeStats(result, prev, t)]

\* finalizeGame(result) called with the latch `ref`, the gameResolved state
\* `resolved` and the pending stats `prev`.
finalizeGame(result, ref, resolved, prev, t) ==
    IF ref
    THEN [ref |-> ref, resolved |-> resolved, stats |-> prev]
    ELSE [ref |-> TRUE, resolved |-> TRUE,
          stats |-> finalizeStats(result, prev, t)]

\* ------------------------------------------------- commit and its effects
\* The commit that follows a handler: the persist effect writes the stats
\* when they changed, and the fetch effect calls the new fetchGame when its
\* identity changed (its dependencies are dailyLossLimitReached and
\* statsLoaded).
Commit(nStats, nLoaded, nStatus, nMessage, nIssued) ==
    LET limitBefore == dailyLossLimitReached(isDevMode, stats)
        limitAfter == dailyLossLimitReached(isDevMode, nStats)
        rerun == nLoaded /\ (limitAfter # limitBefore \/ nLoaded # statsLoaded)
        eff == IF rerun
               THEN fetchGame(limitAfter, nLoaded, nStatus, nMessage)
               ELSE [status |-> nStatus, message |-> nMessage, issued |-> 0]
    IN  /\ stats' = nStats
        /\ statsLoaded' = nLoaded
        /\ status' = eff.status
        /\ message' = eff.message
        /\ inflight' = inflight + nIssued + eff.issued
        /\ stored' = IF nLoaded /\ (nStats # stats \/ nLoaded # statsLoaded)
                     THEN StoredJson(nStats)
                     ELSE stored

\* ---------------------------------------------------------------- actions
Resolved(s) == s.correctGames + s.incorrectGames

\* The component as constructed (the useState initial values), in a
\* browser whose localStorage holds `found` under STORAGE_KEY.
Constructed(found) ==
    /\ today = 0
    /\ isDevMode \in BOOLEAN
    /\ status = "loading"
    /\ message = NoMessage
    /\ game = NullGame
    /\ guesses = <<>>
    /\ currentGuess = ""
    /\ didWin = FALSE
    /\ gameResolved = FALSE
    /\ gameResolvedRef = FALSE
    /\ stats = getDefaultStats(0)
    /\ statsLoaded = FALSE
    /\ stored = found
    /\ inflight = 0
    /\ roundsToday = 0
    /\ resolutions = 0
    /\ lastEvent = "init"

\* The component as constructed on a first visit.
ClientInit == Constructed(StoredAbsent)

Init ==
    /\ ClientInit
    /\ ServerInit

\* Mutant: the load effect does not use what it read.
Mount_IgnoresStored ==
    /\ UNCHANGED svars
    /\ ~statsLoaded
    /\ Commit(getDefaultStats(today), TRUE, status, message, 0)
    /\ lastEvent' = "mount"
    /\ UNCHANGED <<today, isDevMode, game, guesses, currentGuess, didWin,
                   gameResolved, gameResolvedRef, roundsToday, resolutions>>

\* The effects of the first commit: the stored stats are read, normalized
\* and marked loaded; the next commit persists them and requests a round.
Mount ==
    /\ UNCHANGED svars
    /\ ~statsLoaded
    /\ LET loaded == CASE stored.kind = "json" ->
                            normalizeStats(stored.value, today)
                       [] stored.kind = "corrupt" -> getDefaultStats(today)
                       [] OTHER -> stats
       IN  Commit(loaded, TRUE, status, message, 0)
    /\ lastEvent' = "mount"
    /\ UNCHANGED <<today, isDevMode, game, guesses, currentGuess, didWin,
                   gameResolved, gameResolvedRef, roundsToday, resolutions>>

\* onChange of the guess input.
setCurrentGuess(text) ==
    /\ UNCHANGED svars
    /\ statsLoaded
    /\ ~inputDisabled
    /\ text # currentGuess
    /\ currentGuess' = text
    /\ lastEvent' = "type"
    /\ UNCHANGED <<today, isDevMode, status, message, game, guesses, didWin,
                   gameResolved, gameResolvedRef, stats, statsLoaded, stored,
                   inflight, roundsToday, resolutions>>

handleSubmitGuess ==
    /\ UNCHANGED svars
    /\ statsLoaded
    /\ IF ~canSubmitGuess
       THEN /\ lastEvent' = "rejected"
            /\ UNCHANGED <<today, isDevMode, status, message, game, guesses,
                           currentGuess, didWin, gameResolved, gameResolvedRef,
                           stats, statsLoaded, stored, inflight, roundsToday,
                           resolutions>>
       ELSE LET value == Number(trim(currentGuess)).value
                counted == [normalizeStats(stats, today) EXCEPT
                              !.totalGuesses = @ + 1]
                reviewScore == game.reviewScore
                nextGuesses == Append(guesses, value)
                win == /\ reviewScore # Absent
                       /\ Abs(value - reviewScore * Unit)
                            <= WIN_THRESHOLD * Unit
                loss == ~win /\ Len(nextGuesses) >= MAX_GUESSES
                fin == IF win
                       THEN finalizeGame("win", gameResolvedRef, gameResolved,
                                         counted, today)
                       ELSE IF loss
                       THEN finalizeGame("loss", gameResolvedRef, gameResolved,
                                         counted, today)
                       ELSE [ref |-> gameResolvedRef,
                             resolved |-> gameResolved, stats |-> counted]
            IN  /\ stats.totalGuesses < MaxTotalGuesses
                /\ guesses' = nextGuesses
                /\ didWin' = (didWin \/ win)
                /\ gameResolvedRef' = fin.ref
                /\ gameResolved' = fin.resolved
                /\ currentGuess' = ""
                /\ Commit(fin.stats, statsLoaded, status, message, 0)
                /\ resolutions' =
                     resolutions + Resolved(fin.stats) - Resolved(stats)
                /\ lastEvent' = "submit"
                /\ UNCHANGED <<today, isDevMode, game, roundsToday>>

\* onClick of the Skip / New Game button.
handleNewGame ==
    /\ UNCHANGED svars
    /\ ~newGameDisabled
    /\ IF ~statsLoaded
       THEN /\ lastEvent' = "newgame"
            /\ UNCHANGED <<today, isDevMode, status, message, game, guesses,
                           currentGuess, didWin, gameResolved, gameResolvedRef,
                           stats, statsLoaded, stored, inflight, roundsToday,
                           resolutions>>
       ELSE LET fin == IF status = "idle" /\ game # NullGame /\ ~gameResolved
                       THEN finalizeGame("loss", gameResolvedRef, gameResolved,
                                         stats, today)
                       ELSE [ref |-> gameResolvedRef,
                             resolved |-> gameResolved, stats |-> stats]
                req == fetchGame(dailyLossLimitReached(isDevMode, stats),
                                 statsLoaded, status, message)
            IN  /\ gameResolvedRef' = fin.ref
                /\ gameResolved' = fin.resolved
                /\ Commit(fin.stats, statsLoaded, req.status, req.message,
                          req.issued)
                /\ resolutions' =
                     resolutions + Resolved(fin.stats) - Resolved(stats)
                /\ lastEvent' = "newgame"
                /\ UNCHANGED <<today, isDevMode, game, guesses, currentGuess,
                               didWin, roundsToday>>

\* The continuation of fetchGame after a successful response.
FetchResolve(g) ==
    /\ UNCHANGED svars
    /\ inflight > 0
    /\ roundsToday < MaxRoundsPerDay
    /\ status' = "idle"
    /\ message' = NoMessage
    /\ game' = g
    /\ guesses' = <<>>
    /\ currentGuess' = ""
    /\ didWin' = FALSE
    /\ gameResolved' = FALSE
    /\ gameResolvedRef' = FALSE
    /\ inflight' = inflight - 1
    /\ roundsToday' = roundsToday + 1
    /\ resolutions' = 0
    /\ lastEvent' = "resolve"
    /\ UNCHANGED <<today, isDevMode, stats, statsLoaded, stored>>

\* Mutant: the catch branch clears the title.
FetchReject_ClearsGame(m) ==
    /\ UNCHANGED svars
    /\ inflight > 0
    /\ status' = "error"
    /\ message' = m
    /\ game' = NullGame
    /\ inflight' = inflight - 1
    /\ lastEvent' = "fetchError"
    /\ UNCHANGED <<today, isDevMode, guesses, currentGuess, didWin,
                   gameResolved, gameResolvedRef, stats, statsLoaded, stored,
                   roundsToday, resolutions>>

\* The catch branch of fetchGame: a non-ok response or a thrown error.
FetchReject(m) ==
    /\ UNCHANGED svars
    /\ inflight > 0
    /\ status' = "error"
    /\ message' = m
    /\ inflight' = inflight - 1
    /\ lastEvent' = "fetchError"
    /\ UNCHANGED <<today, isDevMode, game, guesses, currentGuess, didWin,
                   gameResolved, gameResolvedRef, stats, statsLoaded, stored,
                   roundsToday, resolutions>>

\* The page is reloaded: the component is constructed anew, responses to
\* earlier requests are dropped, localStorage is kept.
Reload ==
    /\ UNCHANGED svars
    /\ statsLoaded
    /\ status' = "loading"
    /\ message' = NoMessage
    /\ game' = NullGame
    /\ guesses' = <<>>
    /\ currentGuess' = ""
    /\ didWin' = FALSE
    /\ gameResolved' = FALSE
    /\ gameResolvedRef' = FALSE
    /\ stats' = getDefaultStats(today)
    /\ statsLoaded' = FALSE
    /\ inflight' = 0
    /\ resolutions' = 0
    /\ lastEvent' = "reload"
    /\ UNCHANGED <<today, isDevMode, stored, roundsToday>>

\* The UTC date changes.
NextDay ==
    /\ UNCHANGED svars
    /\ today < MaxDay
    /\ today' = today + 1
    /\ roundsToday' = 0
    /\ lastEvent' = "nextday"
    /\ UNCHANGED <<isDevMode, status, message, game, guesses, currentGuess,
                   didWin, gameResolved, gameResolvedRef, stats, statsLoaded,
                   stored, inflight, resolutions>>

Next ==
    \/ Mount
    \/ \E text \in CoreTexts : setCurrentGuess(text)
    \/ handleSubmitGuess
    \/ handleNewGame
    \/ \E g \in CoreTitles : FetchResolve(g)
    \/ \E m \in FetchErrorMessages : FetchReject(m)
    \/ Reload
    \/ NextDay

Spec == Init /\ [][Next]_vars

\* The same component with every text of InputTexts typed and every title of
\* Titles served, over the first title served on each date.
NextInput ==
    \/ Mount
    \/ \E text \in InputTexts : setCurrentGuess(text)
    \/ handleSubmitGuess
    \/ handleNewGame
    \/ \E g \in Titles : roundsToday = 0 /\ FetchResolve(g)
    \/ \E m \in FetchErrorMessages : FetchReject(m)
    \/ Reload
    \/ NextDay

SpecInput == Init /\ [][NextInput]_vars

\* The same component in a browser that already holds something under
\* STORAGE_KEY: a snapshot written on date 0, or text that JSON.parse
\* rejects; over the first title served on each date.
StoredSnapshots ==
    {[totalGuesses |-> 3, correctGames |-> 1, incorrectGames |-> 2,
      currentStreak |-> 0, bestStreak |-> 1, lastPlayedDate |-> 0,
      lossesToday |-> 2]}

InitStorage ==
    /\ \E found \in {StoredAbsent, StoredCorrupt}
                       \cup {StoredJson(s) : s \in StoredSnapshots} :
          Constructed(found)
    /\ ServerInit

NextStorage ==
    \/ Mount
    \/ \E text \in CoreTexts : setCurrentGuess(text)
    \/ handleSubmitGuess
    \/ handleNewGame
    \/ \E g \in CoreTitles : roundsToday = 0 /\ FetchResolve(g)
    \/ \E m \in FetchErrorMessages : FetchReject(m)
    \/ Reload
    \/ NextDay

SpecStorage == InitStorage /\ [][NextStorage]_vars

TypeOK ==
    /\ today \in 0..MaxDay
    /\ status \in {"loading", "idle", "error"}
    /\ Len(guesses) <= MAX_GUESSES
    /\ gameResolved = gameResolvedRef

\* ============================================================ lib/steam
\* The server module (src/app/page.tsx, lines 289-681).  `null` and
\* `undefined` are Absent; counts and scores are non-negative integers.

\* ------------------------------------------------- normalizeReviewScore
\* Math.round((num / den) * 100) in double arithmetic, as the set of values
\* it may take: the integer nearest to the exact quotient; when the exact
\* quotient lies halfway between two integers the rounding error of the
\* division decides (29 / 200 * 100 is 14.499999999999998 and rounds to
\* 14, 1 / 8 * 100 is 12.5 and rounds to 13), so either neighbour.
MathRoundPercent(num, den) ==
    LET lower == (100 * num) \div den
        twice == 2 * ((100 * num) % den)
    IN  IF twice < den THEN {lower}
        ELSE IF twice > den THEN {lower + 1}
        ELSE {lower, lower + 1}

\* Mutant: the fallback score is returned on its own scale.
normalizeReviewScore_NoRescale(positive, total, fallbackScore) ==
    IF positive # Absent /\ total # Absent /\ total > 0
    THEN MathRoundPercent(positive, total)
    ELSE {fallbackScore}

\* The values normalizeReviewScore may return.
normalizeReviewScore(positive, total, fallbackScore) ==
    IF positive # Absent /\ total # Absent /\ total > 0
    THEN MathRoundPercent(positive, total)
    ELSE IF fallbackScore # Absent
    THEN IF fallbackScore <= 10
         THEN {fallbackScore * 10}
         ELSE {fallbackScore}
    ELSE {Absent}

\* Arguments normalizeReviewScore is applied to: review counts of the
\* review summary and Metacritic-style scores, each possibly absent.
PositiveCounts == {Absent, 0, 1, 29, 72, 100, 250}
TotalCounts == {Absent, 0, 8, 100, 200, 250}
FallbackScores == {Absent, 0, 7, 10, 11, 85, 100}

ScoreInit ==
    /\ scoreArgs \in [positive : PositiveCounts, total : TotalCounts,
                      fallbackScore : FallbackScores]
    /\ scoreResult = NoResult

\* One call of normalizeReviewScore.
NormalizeCall ==
    /\ ~scoreResult.done
    /\ \E value \in normalizeReviewScore(scoreArgs.positive, scoreArgs.total,
                                          scoreArgs.fallbackScore) :
         scoreResult' = [done |-> TRUE, value |-> value]
    /\ UNCHANGED <<cvars, scoreArgs, catalogVars, selectVars>>

NextScore == NormalizeCall

InitScore ==
    /\ ClientInit
    /\ ~isDevMode
    /\ ScoreInit
    /\ ModuleInit(BundledIds)

SpecScore == InitScore /\ [][NextScore]_vars

\* ------------------------------------------------------ catalog sources
toLowerCase(text) ==
    CASE text = "Game" -> "game"
      [] text = "DLC" -> "dlc"
      [] OTHER -> text

\* A featured item without a type has type NoType.
NoType == ""

isGameItem(item) ==
    IF item.type = NoType THEN TRUE ELSE toLowerCase(item.type) = "game"

\* Array.from(new Set(ids)): the first occurrence of each id, in order.
RECURSIVE Distinct(_)
Distinct(ids) ==
    IF ids = <<>> THEN <<>>
    ELSE LET front == Distinct(SubSeq(ids, 1, Len(ids) - 1))
             last == ids[Len(ids)]
         IN  IF \E i \in 1..Len(front) : front[i] = last
             THEN front
             ELSE Append(front, last)

RECURSIVE Map(_, _)
Map(items, field) ==
    IF items = <<>> THEN <<>>
    ELSE <<IF field = "id" THEN Head(items).id ELSE Head(items).appid>>
           \o Map(Tail(items), field)

\* What the featured-categories request may end in: a non-ok status, a
\* thrown error (network, body that is not JSON), an envelope whose status
\* is not 1, or an envelope with the items of its categories.
FeaturedResponses ==
    {[kind |-> "notOk", items |-> <<>>],
     [kind |-> "throws", items |-> <<>>],
     [kind |-> "errorStatus", items |-> <<>>],
     [kind |-> "ok", items |-> <<>>],
     [kind |-> "ok", items |-> <<[id |-> 2, type |-> "DLC"]>>],
     [kind |-> "ok", items |-> <<[id |-> 3, type |-> "Game"],
                                 [id |-> 1, type |-> NoType],
                                 [id |-> 2, type |-> "dlc"],
                                 [id |-> 3, type |-> "game"]>>]}

\* What the app-list request may end in; a payload without applist.apps
\* has no apps.
AppListResponses ==
    {[kind |-> "notOk", apps |-> <<>>],
     [kind |-> "throws", apps |-> <<>>],
     [kind |-> "ok", apps |-> <<>>],
     [kind |-> "ok", apps |-> <<[appid |-> 0]>>],
     [kind |-> "ok", apps |-> <<[appid |-> 1], [appid |-> 0],
                                [appid |-> 2], [appid |-> 3]>>]}

\* The ids fetchFeaturedAppIds builds from an envelope.
featuredIdsOf(items) ==
    Distinct(Map(SelectSeq(items, isGameItem), "id"))

\* The ids fetchAllAppIds builds from a payload: .filter(Boolean) drops 0.
allIdsOf(apps) ==
    LET Truthy(id) == id # 0
    IN  SelectSeq(Map(apps, "appid"), Truthy)

\* loadFallbackCatalog() at time t: the value it gives the full-set cache.
loadFallbackCatalog(t) ==
    [ids |-> fallbackAppIds, expiry |-> t + APP_LIST_CACHE_TTL]

\* The synchronous part of fetchFeaturedAppIds / fetchAllAppIds at time t:
\* a fresh cache entry is returned, otherwise the request is sent.
beginCall(cachedIds, cachedExpiry, t) ==
    IF cachedIds # Null /\ cachedExpiry > t
    THEN [phase |-> "done", at |-> t, ids |-> cachedIds,
          requested |-> FALSE, fellBack |-> FALSE]
    ELSE [phase |-> "pending", at |-> t, ids |-> <<>>,
          requested |-> TRUE, fellBack |-> FALSE]

\* Mutant: an empty live listing is returned as it is.
featuredOutcome_KeepsEmpty(resp) ==
    IF resp.kind = "ok"
    THEN [live |-> TRUE, ids |-> featuredIdsOf(resp.items)]
    ELSE [live |-> FALSE, ids |-> fallbackAppIds]

\* The rest of fetchFeaturedAppIds once the response is there: the live
\* ids, or the bundled list.
featuredOutcome(resp) ==
    IF resp.kind = "ok" /\ Len(featuredIdsOf(resp.items)) # 0
    THEN [live |-> TRUE, ids |-> featuredIdsOf(resp.items)]
    ELSE [live |-> FALSE, ids |-> fallbackAppIds]

\* The rest of fetchAllAppIds once the response is there.
allOutcome(resp) ==
    IF resp.kind = "ok" /\ Len(allIdsOf(resp.apps)) # 0
    THEN [live |-> TRUE, ids |-> allIdsOf(resp.apps)]
    ELSE [live |-> FALSE, ids |-> fallbackAppIds]

\* The effect of the continuation of fetchFeaturedAppIds on the module
\* state and on the call.
FeaturedContinue(resp) ==
    LET out == featuredOutcome(resp)
    IN  /\ featuredCall.phase = "pending"
        /\ featuredCall' = [featuredCall EXCEPT
                              !.phase = "done", !.ids = out.ids,
                              !.fellBack = ~out.live]
        /\ IF out.live
           THEN /\ cachedFeaturedIds' = out.ids
                /\ cachedFeaturedExpiry' =
                     featuredCall.at + FEATURED_CACHE_TTL
                /\ UNCHANGED <<cachedAllAppIds, cachedAllAppIdsExpiry,
                               warnedFeaturedFallback>>
           ELSE /\ warnedFeaturedFallback' = TRUE
                /\ cachedAllAppIds' = loadFallbackCatalog(now).ids
                /\ cachedAllAppIdsExpiry' = loadFallbackCatalog(now).expiry
                /\ UNCHANGED <<cachedFeaturedIds, cachedFeaturedExpiry>>

\* The effect of the continuation of fetchAllAppIds.
AllContinue(resp) ==
    LET out == allOutcome(resp)
    IN  /\ allCall.phase = "pending"
        /\ allCall' = [allCall EXCEPT
                         !.phase = "done", !.ids = out.ids,
                         !.fellBack = ~out.live]
        /\ IF out.live
           THEN /\ cachedAllAppIds' = out.ids
                /\ cachedAllAppIdsExpiry' = allCall.at + APP_LIST_CACHE_TTL
           ELSE /\ cachedAllAppIds' = loadFallbackCatalog(now).ids
                /\ cachedAllAppIdsExpiry' = loadFallbackCatalog(now).expiry
        /\ UNCHANGED <<cachedFeaturedIds, cachedFeaturedExpiry,
                       warnedFeaturedFallback>>

\* A call of fetchFeaturedAppIds, up to its first await.
fetchFeaturedAppIds ==
    /\ featuredCall.phase # "pending"
    /\ featuredCall' = beginCall(cachedFeaturedIds, cachedFeaturedExpiry, now)
    /\ sel.phase # "catalogs"
    /\ UNCHANGED <<cvars, scoreVars, now, fallbackAppIds, cacheVars, allCall,
                   selectVars>>

\* The upstream response to it arrives.
FeaturedRespond(resp) ==
    /\ FeaturedContinue(resp)
    /\ UNCHANGED <<cvars, scoreVars, now, fallbackAppIds, allCall,
                   selectVars>>

\* A call of fetchAllAppIds, up to its first await.
fetchAllAppIds ==
    /\ allCall.phase # "pending"
    /\ allCall' = beginCall(cachedAllAppIds, cachedAllAppIdsExpiry, now)
    /\ sel.phase # "catalogs"
    /\ UNCHANGED <<cvars, scoreVars, now, fallbackAppIds, cacheVars,
                   featuredCall, selectVars>>

AllRespond(resp) ==
    /\ AllContinue(resp)
    /\ UNCHANGED <<cvars, scoreVars, now, fallbackAppIds, featuredCall,
                   selectVars>>

\* An hour passes.
Tick ==
    /\ now < MaxNow
    /\ now' = now + 1
    /\ UNCHANGED <<cvars, scoreVars, fallbackAppIds, cacheVars, featuredCall,
                   allCall, selectVars>>

NextCatalog ==
    \/ fetchFeaturedAppIds
    \/ \E resp \in FeaturedResponses : FeaturedRespond(resp)
    \/ fetchAllAppIds
    \/ \E resp \in AppListResponses : AllRespond(resp)
    \/ Tick

InitCatalog ==
    /\ ClientInit
    /\ ~isDevMode
    /\ ScoreIdle
    /\ ModuleInit(BundledIds)

SpecCatalog == InitCatalog /\ [][NextCatalog]_vars

\* ---------------------------------------------------- candidate selector
GenericError == "No eligible Steam games available at the moment."

\* The set of the elements of a list.
Range(ids) == {ids[i] : i \in 1..Len(ids)}

\* Mutant: nothing is filtered out.
filterIds_KeepsAll(source, exclude) == source

filterIds(source, exclude) ==
    LET Kept(id) == id \notin exclude
    IN  SelectSeq(source, Kept)

\* Mutant: no unfiltered pool is offered.
selectPool_NoUnfiltered(featuredIds, allIds, exclude) ==
    {[pool |-> filterIds(ids, exclude), filtered |-> TRUE] :
       ids \in {l \in {allIds, featuredIds} :
                  Len(l) > 0 /\ Len(filterIds(l, exclude)) > 0}}

\* The selections selectPool may return (its Math.random picks any of the
\* candidate pools); the empty set stands for null.
selectPool(featuredIds, allIds, exclude) ==
    LET candidatePools ==
            {[pool |-> filterIds(ids, exclude), filtered |-> TRUE] :
               ids \in {l \in {allIds, featuredIds} :
                          Len(l) > 0 /\ Len(filterIds(l, exclude)) > 0}}
        fallbackPools ==
            {[pool |-> ids, filtered |-> FALSE] :
               ids \in {l \in {allIds, featuredIds} : Len(l) > 0}}
    IN  IF candidatePools # {} THEN candidatePools ELSE fallbackPools

\* Mutant: the review count is not looked at.
isEligibleGame_AnyCount(g) ==
    toLowerCase(g.type) = "game"

isEligibleGame(g) ==
    LET isBaseGame == toLowerCase(g.type) = "game"
        reviewCount == IF g.totalReviews = Absent THEN 0 ELSE g.totalReviews
    IN  isBaseGame /\ reviewCount >= MIN_TOTAL_REVIEWS

\* What the two requests of fetchSteamGame may end in: one of them fails
\* (fetchStoreDetails or fetchReviewSummary throws), or the store data
\* with its type ("unknown" when it has none) and Metacritic score, and the
\* review summary (Absent counts when success is not 1).
DetailFailures ==
    {"Steam store API failed with status 500",
     "Steam reviews API failed with status 500"}

DetailTypes == {"unknown", "game", "Game", "DLC"}

ReviewSummaries ==
    {[total_reviews |-> Absent, total_positive |-> Absent],
     [total_reviews |-> 99, total_positive |-> 72],
     [total_reviews |-> 100, total_positive |-> 72]}

MetacriticScores == {Absent, 85}

\* The SteamGame records fetchSteamGame(appId) may build.
fetchSteamGame(appId) ==
    UNION {{[appId |-> appId,
             type |-> type,
             totalReviews |-> reviews.total_reviews,
             reviewScore |-> score] :
              score \in normalizeReviewScore(reviews.total_positive,
                                             reviews.total_reviews,
                                             metacritic)} :
             type \in DetailTypes, reviews \in ReviewSummaries,
             metacritic \in MetacriticScores}

\* Mutant: the generic error is thrown whatever was recorded.
loopExitError_AlwaysGeneric(lastError) == GenericError

\* The error thrown after the loop.
loopExitError(lastError) ==
    IF lastError # NoError THEN lastError ELSE GenericError

\* Mutant: at capacity the id just pushed is dropped, not the oldest one.
pushRecent_DropsNewest(history, appId) ==
    LET pushed == Append(history, appId)
    IN  IF Len(pushed) > RECENT_HISTORY_LIMIT
        THEN SubSeq(pushed, 1, RECENT_HISTORY_LIMIT)
        ELSE pushed

\* recentHistory after the push (and shift) of a returned id.
pushRecent(history, appId) ==
    LET pushed == Append(history, appId)
    IN  IF Len(pushed) > RECENT_HISTORY_LIMIT THEN Tail(pushed) ELSE pushed

\* fetchRandomSteamGame(excludeIds) up to its await: both catalog
\* functions run up to theirs.
BeginSelect(viaRoute, requestExclude, excludeIds) ==
    /\ sel.phase \in {"none", "returned", "failed"}
    /\ featuredCall.phase # "pending"
    /\ allCall.phase # "pending"
    /\ Len(served) < MaxServed
    /\ sel' = [NoSelect EXCEPT
                 !.phase = "catalogs", !.viaRoute = viaRoute,
                 !.requestExclude = requestExclude,
                 !.excludeIds = excludeIds]
    /\ featuredCall' = beginCall(cachedFeaturedIds, cachedFeaturedExpiry, now)
    /\ allCall' = beginCall(cachedAllAppIds, cachedAllAppIdsExpiry, now)
    /\ UNCHANGED <<cvars, scoreVars, now, fallbackAppIds, cacheVars,
                   recentHistory, served>>

\* The exclude parameters a request may carry, and the arguments of a
\* direct call.
RequestExcludes == {{}, {1}}
ExcludeSets == {{}, {1}, {1, 2, 3}}

\* The route handler GET of /api/steam-game: it calls
\* fetchRandomSteamGame() without arguments.
GET(requestExclude) ==
    BeginSelect(TRUE, requestExclude, {})

\* A call fetchRandomSteamGame(excludeIds) of the exported function.
fetchRandomSteamGame(excludeIds) ==
    BeginSelect(FALSE, {}, excludeIds)

\* Promise.all resolved: the exclusion set is built.
EnterLoop ==
    /\ sel.phase = "catalogs"
    /\ featuredCall.phase = "done"
    /\ allCall.phase = "done"
    /\ sel' = [sel EXCEPT
                 !.phase = "loop",
                 !.excludeSet = sel.excludeIds \cup Range(recentHistory)]
    /\ UNCHANGED <<cvars, scoreVars, catalogVars, recentHistory, served>>

\* Mutant: the loop condition is attempt <= MAX_TOTAL_ATTEMPTS.
afterIteration_OneMore(frame) ==
    IF frame.attempt + 1 <= MAX_TOTAL_ATTEMPTS
    THEN [frame EXCEPT !.attempt = frame.attempt + 1]
    ELSE [frame EXCEPT !.attempt = frame.attempt + 1, !.phase = "failed",
                       !.error = loopExitError(frame.lastError)]

\* The frame after an iteration that did not return: the next iteration,
\* or the throw after the last one.
afterIteration(frame) ==
    IF frame.attempt + 1 < MAX_TOTAL_ATTEMPTS
    THEN [frame EXCEPT !.attempt = frame.attempt + 1]
    ELSE [frame EXCEPT !.attempt = frame.attempt + 1, !.phase = "failed",
                       !.error = loopExitError(frame.lastError)]

\* One iteration of the loop whose selectPool finds no pool: break.
LoopBreak ==
    /\ sel.phase = "loop"
    /\ selectPool(featuredCall.ids, allCall.ids, sel.excludeSet) = {}
    /\ sel' = [sel EXCEPT !.phase = "failed",
                          !.error = loopExitError(sel.lastError)]
    /\ UNCHANGED <<cvars, scoreVars, catalogVars, recentHistory, served>>

\* One iteration of the loop that draws appId and whose resolution fails.
AttemptFails(msg) ==
    /\ sel.phase = "loop"
    /\ \E selection \in selectPool(featuredCall.ids, allCall.ids,
                                   sel.excludeSet) :
         \E appId \in Range(selection.pool) :
            /\ ~(selection.filtered /\ appId \in sel.excludeSet)
            /\ sel' = afterIteration([sel EXCEPT
                                        !.filtered = selection.filtered,
                                        !.lastError = msg,
                                        !.outcome = "failed",
                                        !.lastFailure = msg])
    /\ UNCHANGED <<cvars, scoreVars, catalogVars, recentHistory, served>>

\* One iteration of the loop that draws appId and resolves it to a title.
AttemptResolves ==
    /\ sel.phase = "loop"
    /\ \E selection \in selectPool(featuredCall.ids, allCall.ids,
                                   sel.excludeSet) :
         \E appId \in Range(selection.pool) :
            /\ ~(selection.filtered /\ appId \in sel.excludeSet)
            /\ \E g \in fetchSteamGame(appId) :
                 IF isEligibleGame(g)
                 THEN /\ recentHistory' = pushRecent(recentHistory, appId)
                      /\ served' = Append(served, appId)
                      /\ sel' = [sel EXCEPT
                                   !.phase = "returned",
                                   !.filtered = selection.filtered,
                                   !.excludeSet = sel.excludeSet \cup {appId},
                                   !.outcome = "eligible",
                                   !.game = g]
                 ELSE /\ sel' = afterIteration([sel EXCEPT
                                      !.filtered = selection.filtered,
                                      !.outcome = "ineligible"])
                      /\ UNCHANGED <<recentHistory, served>>
    /\ UNCHANGED <<cvars, scoreVars, catalogVars>>

NextSelect ==
    \/ \E requestExclude \in RequestExcludes : GET(requestExclude)
    \/ \E excludeIds \in ExcludeSets : fetchRandomSteamGame(excludeIds)
    \/ \E resp \in FeaturedResponses : FeaturedRespond(resp)
    \/ \E resp \in AppListResponses : AllRespond(resp)
    \/ EnterLoop
    \/ LoopBreak
    \/ \E msg \in DetailFailures : AttemptFails(msg)
    \/ AttemptResolves

InitSelect ==
    /\ ClientInit
    /\ ~isDevMode
    /\ ScoreIdle
    /\ \E bundled \in BundledLists : ModuleInit(bundled)

SpecSelect == InitSelect /\ [][NextSelect]_vars

\* The selector with the scheduling of the promises: an upstream request
\* settles (fetch resolves, or rejects on a network error or a timeout),
\* and the continuation of a settled await runs.
SelectStep ==
    \/ EnterLoop
    \/ LoopBreak
    \/ \E msg \in DetailFailures : AttemptFails(msg)
    \/ AttemptResolves

FairSelect ==
    /\ WF_vars(\E resp \in FeaturedResponses : FeaturedRespond(resp))
    /\ WF_vars(\E resp \in AppListResponses : AllRespond(resp))
    /\ WF_vars(SelectStep)

\* Direct calls of the exported function, with their excludeIds.
NextDirect ==
    \/ \E excludeIds \in ExcludeSets : fetchRandomSteamGame(excludeIds)
    \/ \E resp \in FeaturedResponses : FeaturedRespond(resp)
    \/ \E resp \in AppListResponses : AllRespond(resp)
    \/ SelectStep

SpecDirect == InitSelect /\ [][NextDirect]_vars

\* Calls without arguments, as the route handler makes them.
NextCall ==
    \/ fetchRandomSteamGame({})
    \/ \E resp \in FeaturedResponses : FeaturedRespond(resp)
    \/ \E resp \in AppListResponses : AllRespond(resp)
    \/ SelectStep

SpecSelectFair == InitSelect /\ [][NextCall]_vars /\ FairSelect

\* ----------------------------------------------- the ring at its capacity
\* The module after one id less than the ring holds was returned within
\* the hour: both listings came live and are cached (featured <<3, 1>>,
\* full set <<1, 2, 3>>), the first three calls returned 1, 2 and 3 from
\* filtered pools and the later ones went round them from unfiltered
\* pools; the latest call returned 3 at its first attempt.  `served`
\* counts from here.
LiveFeaturedIds == <<3, 1>>
LiveAllIds == <<1, 2, 3>>

RingAtStart ==
    [i \in 1..(RECENT_HISTORY_LIMIT - 1) |-> ((i - 1) % Len(LiveAllIds)) + 1]

InitRing ==
    /\ ClientInit
    /\ ~isDevMode
    /\ ScoreIdle
    /\ now = 0
    /\ fallbackAppIds = BundledIds
    /\ cachedFeaturedIds = LiveFeaturedIds
    /\ cachedFeaturedExpiry = FEATURED_CACHE_TTL
    /\ cachedAllAppIds = LiveAllIds
    /\ cachedAllAppIdsExpiry = APP_LIST_CACHE_TTL
    /\ warnedFeaturedFallback = FALSE
    /\ featuredCall = beginCall(LiveFeaturedIds, FEATURED_CACHE_TTL, 0)
    /\ allCall = beginCall(LiveAllIds, APP_LIST_CACHE_TTL, 0)
    /\ recentHistory = RingAtStart
    /\ served = <<>>
    /\ \E g \in fetchSteamGame(RingAtStart[Len(RingAtStart)]) :
          /\ isEligibleGame(g)
          /\ sel = [NoSelect EXCEPT
                      !.phase = "returned",
                      !.excludeSet = Range(RingAtStart),
                      !.outcome = "eligible",
                      !.game = g]

NextRing ==
    \/ \E requestExclude \in RequestExcludes : GET(requestExclude)
    \/ \E excludeIds \in ExcludeSets : fetchRandomSteamGame(excludeIds)
    \/ EnterLoop
    \/ \E msg \in DetailFailures : AttemptFails(msg)
    \/ AttemptResolves

SpecRing == InitRing /\ [][NextRing]_vars

\* ------------------------------------------------------ claim vocabulary
\* The day-scoped counter as it counts on the current UTC date.
LossesForToday == IF stats.lastPlayedDate = today THEN stats.lossesToday ELSE 0

\* A round that accepts guesses.
RoundActive ==
    /\ status = "idle"
    /\ game # NullGame
    /\ ~gameResolved
    /\ ~didWin
    /\ Len(guesses) < MAX_GUESSES

\* ----------------------------------------------------------------- claims

\* C1: outside dev mode no round is active (idle, unresolved, accepting
\* guesses) while the day-scoped counter for the current UTC date is at or
\* above the daily cap.
C1_NoActiveRoundAtCap ==
    (~isDevMode /\ RoundActive) => LossesForToday < DAILY_LOSS_LIMIT

\* C2: a new-round request made outside dev mode with the day-scoped counter
\* for the current UTC date at or above the cap ends in the error state with
\* the daily-limit message and issues no request to the round-fetch endpoint.
\* The requests are the one of the first commit after a (re)load, whose
\* counter is the persisted one; the one of the New Game button; and the one
\* the fetch effect makes once a lost guess has brought the counter to the
\* cap.
C2_LimitShortCircuits ==
    [][(/\ ~isDevMode
        /\ \/ /\ lastEvent' = "mount"
              /\ stored.kind = "json"
              /\ stored.value.lastPlayedDate = today
              /\ stored.value.lossesToday >= DAILY_LOSS_LIMIT
           \/ /\ lastEvent' = "newgame"
              /\ LossesForToday >= DAILY_LOSS_LIMIT
           \/ /\ lastEvent' = "submit"
              /\ stats.lossesToday < DAILY_LOSS_LIMIT
              /\ LossesForToday' >= DAILY_LOSS_LIMIT)
       => (/\ status' = "error"
           /\ message' = DAILY_LIMIT_MESSAGE
           /\ inflight' = inflight)]_vars

C2_Witness ==
    /\ ~isDevMode
    /\ lastEvent = "mount"
    /\ game = NullGame
    /\ LossesForToday >= DAILY_LOSS_LIMIT
    /\ status = "error"
    /\ message = DAILY_LIMIT_MESSAGE
    /\ inflight = 0

\* C3: win/loss bookkeeping is applied at most once for a served title, and
\* finalizing an already resolved round as a loss changes no counter.
C3_ResolvedAtMostOnce ==
    /\ resolutions <= 1
    /\ gameResolvedRef =>
         finalizeGame("loss", gameResolvedRef, gameResolved, stats,
                      today).stats = stats

\* New Game clicked on a round already lost at the last guess.
C3_Witness ==
    /\ resolutions = 1
    /\ gameResolvedRef
    /\ lastEvent = "newgame"
    /\ Len(guesses) = MAX_GUESSES
    /\ ~didWin
    /\ stats.incorrectGames = 1

\* C4: a round is replaced by a newly fetched title only after it was
\* resolved, an unresolved one having been counted as a loss first.
C4_NeverDiscardedUncounted ==
    [][(lastEvent' = "resolve" /\ game # NullGame) => gameResolved]_vars

\* C5: a round lost by guessing has had six guesses; after five guesses
\* without a win it is still open.
C5_SixGuesses ==
    (status = "idle" /\ game # NullGame /\ gameResolved /\ ~didWin)
        => Len(guesses) >= 6

\* C6: a guess within four points of the review score wins the round, and
\* one five or more points away does not.
C6_WinWithinFour ==
    (lastEvent = "submit" /\ game.reviewScore # Absent)
        => (didWin <=> Abs(guesses[Len(guesses)] - game.reviewScore * Unit)
                          <= 4 * Unit)

\* C7: outside dev mode at most three rounds are served on one UTC date.
C7_ThreeRoundsPerDay ==
    ~isDevMode => roundsToday <= 3

\* C8: in dev mode the counter never disables the New Game button, and every
\* new-round request issues a fetch and never ends in the daily-limit error.
C8_DevModeBypassesLimit ==
    [][isDevMode =>
         /\ newGameDisabled' = (status' = "loading")
         /\ lastEvent' \in {"mount", "newgame"} =>
              /\ inflight' = inflight + 1
              /\ status' = "loading"
              /\ message' # DAILY_LIMIT_MESSAGE]_vars

C8_Witness ==
    /\ isDevMode
    /\ lastEvent = "newgame"
    /\ stats.lossesToday > DAILY_LOSS_LIMIT
    /\ status = "loading"
    /\ inflight = 1

\* C9: a submission is rejected without any change to the guesses, the
\* resolved and won flags and the stats when the trimmed text is empty, not
\* a number, not finite or outside [0,100], or when the round is not active.
C9_MustReject ==
    \/ trim(currentGuess) = ""
    \/ Number(trim(currentGuess)).kind \in {"NaN", "Infinity"}
    \/ Number(trim(currentGuess)).value < 0
    \/ Number(trim(currentGuess)).value > 100 * Unit
    \/ status # "idle"
    \/ gameResolved
    \/ didWin
    \/ Len(guesses) >= MAX_GUESSES

C9_InvalidGuessRejected ==
    [][(lastEvent' \in {"submit", "rejected"} /\ C9_MustReject)
         => UNCHANGED <<guesses, gameResolved, gameResolvedRef, didWin,
                        stats, stored>>]_vars

C9_Witness ==
    /\ lastEvent = "rejected"
    /\ status = "idle"
    /\ ~gameResolved
    /\ currentGuess \in {"   ", "Infinity", "101", "-1", "abc"}
    /\ Len(guesses) > 0

\* C10: a cap reached on an earlier date never blocks or disables a
\* new-round request: the counter of an earlier date counts as zero.
C10_CapOfEarlierDayIgnored ==
    (statsLoaded /\ stats.lastPlayedDate # today)
        => ~dailyLossLimitReached(isDevMode, stats)

\* C19: a step that ends in the error state (fetch failure, daily limit) or
\* in the loading state of a new-round request leaves the displayed title
\* as it was; only the construction of the component starts without one.
C19_ErrorKeepsTitle ==
    [][(status' \in {"error", "loading"} /\ lastEvent' # "reload")
         => game' = game]_vars

C19_Witness ==
    /\ lastEvent = "fetchError"
    /\ status = "error"
    /\ game # NullGame
    /\ gameResolved

\* C20: a win resolution adds exactly 1 to correctGames and to
\* currentStreak, sets bestStreak to the larger of its old value and the new
\* currentStreak, and leaves incorrectGames and the day-scoped counter (as
\* it counts on the current date) unchanged.
C20_WinBookkeeping ==
    [][(~didWin /\ didWin')
         => /\ stats'.correctGames = stats.correctGames + 1
            /\ stats'.currentStreak = stats.currentStreak + 1
            /\ stats'.bestStreak =
                  Max(stats.bestStreak, stats.currentStreak + 1)
            /\ stats'.incorrectGames = stats.incorrectGames
            /\ stats'.lossesToday = LossesForToday]_vars

C20_Witness ==
    /\ lastEvent = "submit"
    /\ didWin
    /\ gameResolved
    /\ stats.currentStreak = 2
    /\ stats.bestStreak = 2

\* C18: normalizeReviewScore equals the reference function: with positive
\* and total present and total > 0 it is an integer nearest to
\* positive / total * 100, within [0,100] when
\* positive <= total; otherwise with fallbackScore present it is
\* fallbackScore * 10 when fallbackScore <= 10 and fallbackScore when it is
\* in (10,100]; otherwise it is absent.  The pair wins over fallbackScore.
C18_PairUsable ==
    scoreArgs.positive # Absent /\ scoreArgs.total # Absent
        /\ scoreArgs.total > 0

C18_NormalizerIsReference ==
    scoreResult.done =>
        LET p == scoreArgs.positive
            t == scoreArgs.total
            f == scoreArgs.fallbackScore
            r == scoreResult.value
        IN  /\ C18_PairUsable =>
                  /\ r # Absent
                  /\ 2 * t * r - t <= 200 * p
                  /\ 200 * p <= 2 * t * r + t
                  /\ (p <= t => r \in 0..100)
            /\ (~C18_PairUsable /\ f # Absent /\ f <= 10) => r = f * 10
            /\ (~C18_PairUsable /\ f > 10 /\ f <= 100) => r = f
            /\ (~C18_PairUsable /\ f = Absent) => r = Absent

C18_Witness ==
    /\ scoreResult.done
    /\ scoreArgs = [positive |-> 29, total |-> 200, fallbackScore |-> 85]
    /\ scoreResult.value = 14

\* C13: with a non-empty bundled list, a call of either catalog function
\* never rejects and returns a non-empty list of ids, whatever the upstream
\* request ended in (non-ok status, thrown error, error status in the
\* envelope, malformed payload, zero results).
C13_GetIdsNeverEmpty ==
    Len(fallbackAppIds) > 0 =>
        /\ featuredCall.phase \in {"none", "pending", "done"}
        /\ allCall.phase \in {"none", "pending", "done"}
        /\ featuredCall.phase = "done" => Len(featuredCall.ids) > 0
        /\ allCall.phase = "done" => Len(allCall.ids) > 0

C13_Witness ==
    /\ Len(fallbackAppIds) > 0
    /\ featuredCall.phase = "done" /\ featuredCall.fellBack
    /\ featuredCall.ids = fallbackAppIds
    /\ allCall.phase = "done" /\ allCall.fellBack
    /\ allCall.ids = fallbackAppIds

\* C14: after a call of a catalog function fell back to the bundled list,
\* no further call of the same function sends an upstream request before
\* that function's cache lifetime has passed.
C14_FallbackIsCached ==
    [][/\ (/\ featuredCall.phase = "done"
           /\ featuredCall.fellBack
           /\ now < featuredCall.at + FEATURED_CACHE_TTL)
          => featuredCall'.phase # "pending"
       /\ (/\ allCall.phase = "done"
           /\ allCall.fellBack
           /\ now < allCall.at + APP_LIST_CACHE_TTL)
          => allCall'.phase # "pending"]_vars

\* C15: a step of the featured function (call, success, failure) leaves the
\* full-set cache's ids and expiry as they were, and a step of the full-set
\* function leaves the featured cache's ids and expiry as they were.
C15_CachesIndependent ==
    [][/\ (featuredCall' # featuredCall /\ allCall' = allCall)
          => UNCHANGED <<cachedAllAppIds, cachedAllAppIdsExpiry>>
       /\ (allCall' # allCall /\ featuredCall' = featuredCall)
          => UNCHANGED <<cachedFeaturedIds, cachedFeaturedExpiry>>]_vars

\* C11: every title fetchRandomSteamGame returns, from a filtered or an
\* unfiltered pool, has a type equal to "game" up to case and a review
\* count that is present and at least 100.
C11_ReturnedTitleEligible ==
    sel.phase = "returned" =>
        /\ sel.game.type \in {"game", "Game"}
        /\ sel.game.totalReviews # Absent
        /\ sel.game.totalReviews >= 100

C11_Witness ==
    /\ sel.phase = "returned"
    /\ ~sel.filtered
    /\ sel.game.type = "Game"
    /\ sel.game.totalReviews = 100
    /\ sel.attempt > 0

\* C12: the identifiers of the exclude parameter of a request are in the
\* exclusion set of the call the route handler makes, and the call does
\* not return one of them while a catalog holds an identifier that is
\* neither in the parameter nor in the recent history.
C12_RouteHonoursExclude ==
    [][/\ (sel'.phase = "loop" /\ sel'.viaRoute)
          => sel'.requestExclude \subseteq sel'.excludeSet
       /\ (/\ sel.phase = "loop"
           /\ sel'.phase = "returned"
           /\ sel.viaRoute
           /\ \E id \in Range(featuredCall.ids) \cup Range(allCall.ids) :
                 id \notin sel.requestExclude \cup sel.excludeSet)
          => sel'.game.appId \notin sel.requestExclude]_vars

\* C16: a call of fetchRandomSteamGame that fails throws the error of the
\* latest candidate resolution that failed during the call, if there was
\* one (also when later candidates were only ineligible), and the generic
\* error otherwise.
C16_ErrorOfFailedCall ==
    sel.phase = "failed" =>
        sel.error = IF sel.lastFailure # NoError
                    THEN sel.lastFailure
                    ELSE GenericError

C16_Witness ==
    /\ sel.phase = "failed"
    /\ sel.outcome = "ineligible"
    /\ sel.error = "Steam reviews API failed with status 500"

\* C17: in the loop, when the exclusion set holds every id of both catalogs
\* and a catalog is not empty, every selection selectPool may return is a
\* non-empty catalog as it is, with filtered = FALSE; a call leaves the loop
\* before its last attempt only when both catalogs are empty.
C17_UnfilteredWhenAllExcluded ==
    LET featuredIds == featuredCall.ids
        allIds == allCall.ids
    IN  /\ (/\ sel.phase = "loop"
            /\ Range(featuredIds) \cup Range(allIds) \subseteq sel.excludeSet
            /\ Len(featuredIds) + Len(allIds) > 0)
           => /\ selectPool(featuredIds, allIds, sel.excludeSet) # {}
              /\ \A selection \in selectPool(featuredIds, allIds,
                                              sel.excludeSet) :
                    /\ ~selection.filtered
                    /\ Len(selection.pool) > 0
                    /\ selection.pool \in {featuredIds, allIds}
        /\ (sel.phase = "failed" /\ sel.attempt < MAX_TOTAL_ATTEMPTS)
           => Len(featuredIds) + Len(allIds) = 0

C17_Witness ==
    /\ sel.phase = "returned"
    /\ ~sel.filtered
    /\ sel.excludeIds = {1, 2, 3}
    /\ sel.game.appId \in sel.excludeIds

\* C21: a loss resolution (the last guess missed, or an unresolved round
\* was abandoned) adds exactly 1 to incorrectGames and to the day-scoped
\* counter as it counts on the current date, sets currentStreak to 0 and
\* leaves correctGames and bestStreak unchanged; a title without a
\* reviewScore is never won.
C21_LossBookkeeping ==
    [][/\ (~gameResolved /\ gameResolved' /\ ~didWin')
          => /\ stats'.incorrectGames = stats.incorrectGames + 1
             /\ stats'.lossesToday = LossesForToday + 1
             /\ stats'.currentStreak = 0
             /\ stats'.correctGames = stats.correctGames
             /\ stats'.bestStreak = stats.bestStreak
       /\ game'.reviewScore = Absent => ~didWin']_vars

C21_Witness ==
    /\ lastEvent = "submit"
    /\ gameResolved
    /\ ~didWin
    /\ game.reviewScore = Absent
    /\ Len(guesses) = MAX_GUESSES
    /\ stats.incorrectGames = 1

\* C22: the stats change only on a guess submission and on a round
\* resolution.  An accepted guess adds exactly 1 to totalGuesses, and while
\* the stats are loaded nothing else changes totalGuesses; a guess that
\* does not resolve the round changes no other counter; a fetch completion,
\* a fetch error and a rejected or typed input change no counter, and a
\* new-round request changes none unless it counts the abandoned round as
\* a loss.  The day-scoped counter is taken as it counts on the current
\* date.
C22_Accepted == Len(guesses') = Len(guesses) + 1

C22_OtherCountersKept ==
    /\ stats'.correctGames = stats.correctGames
    /\ stats'.incorrectGames = stats.incorrectGames
    /\ stats'.currentStreak = stats.currentStreak
    /\ stats'.bestStreak = stats.bestStreak
    /\ stats'.lossesToday = LossesForToday

C22_StatsChangeOnlyOnGuessOrResolution ==
    [][/\ C22_Accepted => stats'.totalGuesses = stats.totalGuesses + 1
       /\ (statsLoaded /\ statsLoaded' /\ ~C22_Accepted)
          => stats'.totalGuesses = stats.totalGuesses
       /\ (C22_Accepted /\ gameResolved' = gameResolved)
          => C22_OtherCountersKept
       /\ lastEvent' \in {"resolve", "fetchError", "rejected", "type",
                          "nextday"}
          => stats' = stats
       /\ (lastEvent' = "newgame" /\ gameResolved' = gameResolved)
          => stats' = stats]_vars

C22_Witness ==
    /\ lastEvent = "submit"
    /\ ~gameResolved
    /\ Len(guesses) = 2
    /\ stats.totalGuesses = 4
    /\ stats.incorrectGames = 1

\* C23: the guess sequence of a round has at most MAX_GUESSES entries,
\* every recorded guess is an integer in [0,100], and the sequence only
\* grows by appending; it is emptied only when a fetched title starts a
\* new round (or the component is constructed anew).
C23_BoundedAndAppendOnly ==
    /\ Len(guesses') <= MAX_GUESSES
    /\ \A i \in 1..Len(guesses') :
          guesses'[i] >= 0 /\ guesses'[i] <= 100 * Unit
    /\ \/ guesses' = guesses
       \/ /\ Len(guesses') = Len(guesses) + 1
          /\ SubSeq(guesses', 1, Len(guesses)) = guesses
       \/ guesses' = <<>> /\ lastEvent' \in {"resolve", "reload"}

C23_GuessesAreIntegers ==
    [][/\ C23_BoundedAndAppendOnly
       /\ \A i \in 1..Len(guesses') : guesses'[i] % Unit = 0]_vars

\* C24: starting from the default stats, bestStreak >= currentStreak and
\* every counter is non-negative in every state, and bestStreak never
\* decreases, neither in the loaded snapshot nor in the stored one.
C24_CountersOK(s) ==
    /\ s.bestStreak >= s.currentStreak
    /\ s.totalGuesses >= 0
    /\ s.correctGames >= 0
    /\ s.incorrectGames >= 0
    /\ s.currentStreak >= 0
    /\ s.bestStreak >= 0
    /\ s.lossesToday >= 0

C24_StreaksAndCounters ==
    [][/\ C24_CountersOK(stats) /\ C24_CountersOK(stats')
       /\ C24_CountersOK(stored'.value)
       /\ (statsLoaded /\ statsLoaded')
          => stats'.bestStreak >= stats.bestStreak
       /\ stored'.value.bestStreak >= stored.value.bestStreak]_vars

C24_Witness ==
    /\ statsLoaded
    /\ stats.bestStreak = 2
    /\ stats.currentStreak = 0
    /\ stats.incorrectGames = 1
    /\ stored = StoredJson(stats)

\* C29: the stored snapshot is not written before it has been read; the
\* load effect restores every counter of a snapshot stored on the same
\* date (and all but the day-scoped one of an older snapshot); an absent or
\* corrupt stored value gives stats whose counters are all 0; and no
\* round-fetch request is issued before the stats are loaded.
C29_ZeroCounters(s) ==
    /\ s.totalGuesses = 0
    /\ s.correctGames = 0
    /\ s.incorrectGames = 0
    /\ s.currentStreak = 0
    /\ s.bestStreak = 0
    /\ s.lossesToday = 0

C30_ResolvedRoundFrozen ==
    [][gameResolved =>
         \/ lastEvent' \in {"resolve", "reload"}
         \/ /\ guesses' = guesses
            /\ didWin' = didWin
            /\ gameResolved' = gameResolved
            /\ game' = game]_vars

\* An abandoned round was counted as a loss, the request for the next title
\* failed, and a submit of the text typed before was turned down.
C30_Witness ==
    /\ gameResolved
    /\ ~didWin
    /\ Len(guesses) < MAX_GUESSES
    /\ status = "error"
    /\ message \in FetchErrorMessages
    /\ guessIsNumber(currentGuess)
    /\ lastEvent = "rejected"

\* The latest call of a catalog function was a live refresh: it sent the
\* request and returned the listing it got.
C25_LiveRefresh(call) ==
    call.phase = "done" /\ call.requested /\ ~call.fellBack

\* What C25 says of one source, whose latest call is `call`, whose next
\* state of the call is `callNext`, with the cache `idsNext`, `expiryNext`
\* after the step and the lifetime `ttl`.
C25_Source(call, callNext, idsNext, expiryNext, ttl) ==
    /\ (call.phase = "pending" /\ C25_LiveRefresh(callNext))
         => (idsNext = callNext.ids /\ expiryNext = call.at + ttl)
    /\ (C25_LiveRefresh(call) /\ callNext # call /\ now < call.at + ttl)
         => /\ callNext.phase = "done"
            /\ ~callNext.requested
            /\ callNext.ids = call.ids
    /\ (C25_LiveRefresh(call) /\ callNext # call /\ now >= call.at + ttl)
         => (callNext.phase = "pending" /\ callNext.requested)

\* The featured source alone.
C25_FeaturedHitUntilExpiry ==
    [][C25_Source(featuredCall, featuredCall', cachedFeaturedIds',
                  cachedFeaturedExpiry', FEATURED_CACHE_TTL)]_vars

\* C25: for each catalog source, a live refresh makes the cache the new
\* listing, expiring one lifetime after the call; a call of that source
\* before the expiry returns the listing of the refresh without an upstream
\* request, and a call at or after the expiry sends an upstream request.
C25_CacheHitUntilExpiry ==
    [][/\ C25_Source(featuredCall, featuredCall', cachedFeaturedIds',
                     cachedFeaturedExpiry', FEATURED_CACHE_TTL)
       /\ C25_Source(allCall, allCall', cachedAllAppIds',
                     cachedAllAppIdsExpiry', APP_LIST_CACHE_TTL)]_vars

\* The last RECENT_HISTORY_LIMIT entries of a list, in order.
C26_LastReturned(ids) ==
    IF Len(ids) <= RECENT_HISTORY_LIMIT
    THEN ids
    ELSE SubSeq(ids, Len(ids) - RECENT_HISTORY_LIMIT + 1, Len(ids))

\* C26: the recent-history ring never holds more than 25 ids; the step in
\* which fetchRandomSteamGame returns a title appends the id of that title
\* and, past the capacity, drops the oldest entry and nothing else; no
\* other step (a failed or ineligible candidate, the start or the failure
\* of a call) changes the ring.
C26_RingOfLastReturned ==
    /\ Len(recentHistory) <= RECENT_HISTORY_LIMIT
    /\ [][/\ Len(recentHistory') <= RECENT_HISTORY_LIMIT
           /\ IF sel.phase = "loop" /\ sel'.phase = "returned"
              THEN /\ recentHistory' =
                        C26_LastReturned(Append(recentHistory,
                                                sel'.game.appId))
                   /\ served' = Append(served, sel'.game.appId)
              ELSE recentHistory' = recentHistory]_vars

\* The ring was full and a further title was returned: the oldest entry
\* is gone and the ring ends in the two ids returned last.
C26_Witness ==
    /\ Len(served) = 2
    /\ sel.phase = "returned"
    /\ Len(recentHistory) = RECENT_HISTORY_LIMIT
    /\ recentHistory = Tail(RingAtStart) \o served
    /\ served[1] # served[2]

\* C27: a call of fetchRandomSteamGame runs at most MAX_TOTAL_ATTEMPTS
\* iterations of its loop, each with at most one candidate resolution: the
\* count of the iterations that did not return never passes 50 and is below
\* 50 while the loop runs and when a title is returned, every step of the
\* loop ends the call or adds one to the count, and every call that was
\* started ends, with the title or with the error.
C27_EndsWithinBudget ==
    /\ [](/\ sel.attempt <= MAX_TOTAL_ATTEMPTS
          /\ sel.phase \in {"loop", "returned"}
               => sel.attempt < MAX_TOTAL_ATTEMPTS)
    /\ [][sel.phase = "loop" =>
            \/ sel'.phase \in {"returned", "failed"}
            \/ sel'.phase = "loop" /\ sel'.attempt = sel.attempt + 1]_vars
    /\ (sel.phase \in {"catalogs", "loop"})
         ~> (sel.phase \in {"returned", "failed"})

\* A call used its whole budget: the fiftieth candidate was not eligible
\* and the call failed.
C27_Witness ==
    /\ sel.phase = "failed"
    /\ sel.attempt = MAX_TOTAL_ATTEMPTS
    /\ sel.outcome = "ineligible"
    /\ sel.error \in DetailFailures

\* Some catalog of the call holds an id outside its exclusion set.
C28_SomeIdNotExcluded ==
    \E id \in Range(featuredCall.ids) \cup Range(allCall.ids) :
       id \notin sel.excludeSet

\* C28: in a call of fetchRandomSteamGame whose exclusion set (the
\* excludeIds argument together with the ring as the call found it) leaves
\* out some id of a catalog, every pool selectPool may hand to an iteration
\* is a filtered one with no excluded id in it, every candidate that was
\* resolved and dropped came from a filtered pool, and the id of the title
\* returned is not in the exclusion set.
C28_DrawsFromFilteredPools ==
    [][(sel.phase = "loop" /\ C28_SomeIdNotExcluded) =>
          /\ selectPool(featuredCall.ids, allCall.ids, sel.excludeSet) # {}
          /\ \A selection \in selectPool(featuredCall.ids, allCall.ids,
                                         sel.excludeSet) :
                /\ selection.filtered
                /\ Range(selection.pool) \cap sel.excludeSet = {}
          /\ sel'.attempt > sel.attempt => sel'.filtered
          /\ sel'.phase = "returned"
               => /\ sel'.filtered
                  /\ sel'.game.appId \notin sel.excludeSet
                  /\ sel'.game.appId \notin
                       sel.excludeIds \cup Range(recentHistory)]_vars

\* A direct call excluding 1, made when the ring held 2, dropped a
\* candidate and then returned 3, with 1 and 2 in the full-set catalog.
C28_Witness ==
    /\ sel.phase = "returned"
    /\ sel.excludeIds = {1}
    /\ served = <<2, 3>>
    /\ sel.game.appId = 3
    /\ sel.filtered
    /\ sel.attempt > 0
    /\ {1, 2} \subseteq Range(allCall.ids)

====
